---- MODULE Spec2Model ----
(***************************************************************************)
(* Cluster-structure analysis of src/src/cuda_common.cu                    *)
(* (ClusterStructure::clear, analyze_pair, ad_pair, merge_clusters,        *)
(* find_id_for).                                                           *)
(*                                                                         *)
(* The three maps of ClusterStructure are modelled as functions:           *)
(*   cluster_id          particle identity -> cluster id                   *)
(*   cluster_identities  cluster id -> cluster id (the alias table)        *)
(*   clusters            cluster id -> sequence of particle identities     *)
(* analyze_pair is split at its loop body: one step per scanned pair, so   *)
(* that the states inside the scan are states of the model.                *)
(*                                                                         *)
(* The second part models the particle gather and the force scatter of     *)
(* the same file (mpi_get_particles_lb, mpi_get_particles_slave_lb,        *)
(* mpi_send_forces_lb, mpi_send_forces_slave_lb): one process per node,    *)
(* node 0 the master, messages in flight in a channel.                     *)
(*                                                                         *)
(* The third part models the Integrator class of                           *)
(* src/src/python/espressomd/integrate.pyx: its three attributes, the      *)
(* methods that set them, and __getstate__ / __setstate__.                 *)
(***************************************************************************)
EXTENDS Integers, Sequences, FiniteSets, TLC

\* ---------------------------------------------------------------- bounds
\* particle identities are 0..MaxId
MaxId == 3
\* analyze_pair is called while the cluster-id counter is at most this
MaxStartId == 2
\* number of merge_clusters calls after one analyze_pair call
MaxMerges == 2
\* the gather runs on 1..MaxNodes nodes
MaxNodes == 3
\* a node holds 0..MaxPart particles
MaxPart == 2
\* integrator parameters take the values 1..MaxParam
MaxParam == 2

\* ------------------------------------------------------------- constants
\* first value handed out by the cluster-id counter
BaseClusterId == 0
\* result of find_id_for when its while loop never leaves the alias table
Diverges == -1

VARIABLES
    local_particles,        \* identities i with local_particles[i] != NULL
    max_seen_particle,      \* upper end of the scanned identity range
    nc,                     \* the neighbor criterion: set of pairs <<a,b>>, a < b
    cluster_id,             \* std::map particle identity -> cluster id
    cluster_identities,     \* std::map cluster id -> cluster id
    clusters,               \* std::map cluster id -> member list
    next_cluster_id,        \* counter behind get_next_free_cluster_id
    pc,                     \* "idle", "scan", "done", "aborted", "hung"
    pos,                    \* index of the pair the scan processes next
    runs,                   \* analyze_pair calls so far: 0, 1, 2 = two or more
    merges,                 \* merge_clusters calls since the last analyze_pair
    before,                 \* history: the structure on entry of analyze_pair
    n_nodes,                \* number of nodes of comm_cart
    n_part,                 \* node -> cells_get_n_particles() on that node
    eager_send,             \* MPI_Send returns before the message is received
    node_pc,                \* node -> where the node is in the two calls
    contrib,                \* node -> MPI_Gather calls the node has entered
    sizes,                  \* the master's gathered array
    pnode,                  \* the master's loop variable
    g,                      \* the master's offset into the host array
    channel,                \* messages sent and not yet received
    mpi_count,              \* sends and posted receives per peer and call
    host_data_slice,        \* node -> slice of host_data holding its particles
    host_forces_slice,      \* node -> slice of host_forces it was sent
    NPT,                    \* the build's IF NPT of myconfig.pxi
    integrator,             \* the three attributes of the Integrator
    integrator_pc,          \* "using", "pickled", "unpickled"
    pickled,                \* the state __getstate__ returned
    unpickled               \* the new Integrator after __setstate__

cluster_vars == <<local_particles, max_seen_particle, nc, cluster_id,
                  cluster_identities, clusters, next_cluster_id, pc, pos,
                  runs, merges, before>>

mpi_vars == <<n_nodes, n_part, eager_send, node_pc, contrib, sizes, pnode, g,
              channel, mpi_count, host_data_slice, host_forces_slice>>

integrator_vars == <<NPT, integrator, integrator_pc, pickled, unpickled>>

vars == <<cluster_vars, mpi_vars, integrator_vars>>

\* ------------------------------------------------------------ map helpers
EmptyMap == <<>>

Put(m, k, v) == (k :> v) @@ m

Range(m) == { m[k] : k \in DOMAIN m }

\* ------------------------------------------------------------ find_id_for
RECURSIVE FollowAlias(_, _, _)
FollowAlias(ids, x, fuel) ==
    IF x \notin DOMAIN ids THEN x
    ELSE IF fuel = 0 THEN Diverges
    ELSE FollowAlias(ids, ids[x], fuel - 1)

\* while (cluster_identities.find(x) != end) x = cluster_identities[x];
\* A walk that is still inside the table after as many steps as the table
\* has keys is on a cycle: the loop never returns.
find_id_for(ids, x) == FollowAlias(ids, x, Cardinality(DOMAIN ids))

\* number of loop iterations of find_id_for, Diverges when it never returns
RECURSIVE AliasSteps(_, _, _)
AliasSteps(ids, x, fuel) ==
    IF x \notin DOMAIN ids THEN 0
    ELSE IF fuel = 0 THEN Diverges
    ELSE LET r == AliasSteps(ids, ids[x], fuel - 1)
         IN  IF r = Diverges THEN Diverges ELSE r + 1

find_id_steps(ids, x) == AliasSteps(ids, x, Cardinality(DOMAIN ids))

\* ------------------------------------------------- the neighbor criterion
are_neighbors(crit, p1, p2) ==
    IF p1 < p2 THEN <<p1, p2>> \in crit ELSE <<p2, p1>> \in crit

\* -------------------------------------------------- cluster-id allocation
get_next_free_cluster_id(counter) == [cid |-> counter, counter |-> counter + 1]

\* ----------------------------------------------------------------- clear
\* clear() without its first line: the cluster objects survive
clear_keeps_clusters == [clusters |-> clusters,
                         cluster_id |-> EmptyMap,
                         cluster_identities |-> EmptyMap]

clear == [clusters |-> EmptyMap,
          cluster_id |-> EmptyMap,
          cluster_identities |-> EmptyMap]

\* --------------------------------------------------------------- ad_pair
\* Result of one call: the two maps it writes, the counter, and whether a
\* find_id_for call inside it never returned.
\* The second and third branch test "cluster_id[p] != cluster_id.end()" for
\* the other particle; they are reached only when that particle has an
\* entry, so the test is the presence test and inserts nothing.  The fourth
\* branch compares the stored ids (cluster_id[p1], cluster_id[p2]) in both
\* of its tests and resolves them only for the alias it stores.
AdResult(cid, ids, counter, hang) ==
    [cluster_id |-> cid, cluster_identities |-> ids, counter |-> counter,
     hang |-> hang]

\* ad_pair whose first branch stores the new id for p1 only
ad_pair_first_only(cid, ids, counter, crit, p1, p2) ==
    IF ~are_neighbors(crit, p1, p2) THEN AdResult(cid, ids, counter, FALSE)
    ELSE IF p1 \notin DOMAIN cid /\ p2 \notin DOMAIN cid THEN
        LET n == get_next_free_cluster_id(counter)
        IN  AdResult(Put(cid, p1, n.cid), ids, n.counter, FALSE)
    ELSE IF p1 \notin DOMAIN cid THEN
        LET c == find_id_for(ids, cid[p2])
        IN  IF c = Diverges THEN AdResult(cid, ids, counter, TRUE)
            ELSE AdResult(Put(cid, p1, c), ids, counter, FALSE)
    ELSE IF p2 \notin DOMAIN cid THEN
        LET c == find_id_for(ids, cid[p1])
        IN  IF c = Diverges THEN AdResult(cid, ids, counter, TRUE)
            ELSE AdResult(Put(cid, p2, c), ids, counter, FALSE)
    ELSE IF cid[p1] # cid[p2] THEN
        LET c1 == find_id_for(ids, cid[p1])
            c2 == find_id_for(ids, cid[p2])
        IN  IF c1 = Diverges \/ c2 = Diverges
            THEN AdResult(cid, ids, counter, TRUE)
            ELSE IF cid[p1] < cid[p2]
            THEN AdResult(cid, Put(ids, c2, c1), counter, FALSE)
            ELSE AdResult(cid, Put(ids, c1, c2), counter, FALSE)
    ELSE AdResult(cid, ids, counter, FALSE)

ad_pair(cid, ids, counter, crit, p1, p2) ==
    IF ~are_neighbors(crit, p1, p2) THEN AdResult(cid, ids, counter, FALSE)
    ELSE IF p1 \notin DOMAIN cid /\ p2 \notin DOMAIN cid THEN
        \* None belongs to a cluster
        LET n == get_next_free_cluster_id(counter)
        IN  AdResult(Put(Put(cid, p1, n.cid), p2, n.cid), ids, n.counter, FALSE)
    ELSE IF p1 \notin DOMAIN cid THEN
        \* p2 belongs to a cluster but p1 doesn't
        LET c == find_id_for(ids, cid[p2])
        IN  IF c = Diverges THEN AdResult(cid, ids, counter, TRUE)
            ELSE AdResult(Put(cid, p1, c), ids, counter, FALSE)
    ELSE IF p2 \notin DOMAIN cid THEN
        \* p1 belongs to a cluster but p2 doesn't
        LET c == find_id_for(ids, cid[p1])
        IN  IF c = Diverges THEN AdResult(cid, ids, counter, TRUE)
            ELSE AdResult(Put(cid, p2, c), ids, counter, FALSE)
    ELSE IF cid[p1] # cid[p2] THEN
        \* the stored ids differ: both operands are resolved, then stored
        LET c1 == find_id_for(ids, cid[p1])
            c2 == find_id_for(ids, cid[p2])
        IN  IF c1 = Diverges \/ c2 = Diverges
            THEN AdResult(cid, ids, counter, TRUE)
            ELSE IF cid[p1] < cid[p2]
            THEN AdResult(cid, Put(ids, c2, c1), counter, FALSE)
            ELSE AdResult(cid, Put(ids, c1, c2), counter, FALSE)
    ELSE AdResult(cid, ids, counter, FALSE)

\* ------------------------------------------------- the pairs of the scan
\* the pairs a criterion can be asked about
PairSet(present, maxseen) ==
    { p \in (0..maxseen) \X (0..maxseen) :
        p[1] < p[2] /\ p[1] \in present /\ p[2] \in present }

\* for (int j = i+1; j <= max_seen_particle; j++)
\*   { if (!local_particles[j]) continue; <pair i, j> }
RECURSIVE InnerLoop(_, _)
InnerLoop(i, j) ==
    IF j > max_seen_particle THEN <<>>
    ELSE (IF j \in local_particles THEN << <<i, j>> >> ELSE <<>>)
         \o InnerLoop(i, j + 1)

\* for (int i = 0; i <= max_seen_particle; i++)
\*   { if (!local_particles[i]) continue; <inner loop> }
RECURSIVE OuterLoop(_)
OuterLoop(i) ==
    IF i > max_seen_particle THEN <<>>
    ELSE (IF i \in local_particles THEN InnerLoop(i, i + 1) ELSE <<>>)
         \o OuterLoop(i + 1)

\* the pairs in the order in which the two loops of analyze_pair reach them
ScanPairs == OuterLoop(0)

\* -------------------------------------------------------- merge_clusters
\* the keys of a map over particle identities in the map's iteration order
RECURSIVE KeysFrom(_, _)
KeysFrom(m, k) ==
    IF k > max_seen_particle THEN <<>>
    ELSE (IF k \in DOMAIN m THEN <<k>> ELSE <<>>) \o KeysFrom(m, k + 1)

\* first loop: "for (auto it : cluster_id)" iterates over copies, so
\* "it.second = cid" changes the copy only; a missing cluster object is
\* created for the resolved id.  hang: a find_id_for call never returned.
RECURSIVE MergeCreate(_, _, _, _)
MergeCreate(keys, cid, ids, cls) ==
    IF keys = <<>> THEN [hang |-> FALSE, clusters |-> cls]
    ELSE LET c == find_id_for(ids, cid[Head(keys)])
         IN  IF c = Diverges THEN [hang |-> TRUE, clusters |-> cls]
             ELSE MergeCreate(Tail(keys), cid, ids,
                     IF c \in DOMAIN cls THEN cls ELSE Put(cls, c, <<>>))

\* second loop with a lookup that does not create: a particle whose stored
\* id has no cluster object is left out
RECURSIVE MergeFill_no_create(_, _, _)
MergeFill_no_create(keys, cid, cls) ==
    IF keys = <<>> THEN cls
    ELSE LET p == Head(keys)
             c == cid[p]
         IN  IF c \in DOMAIN cls
             THEN MergeFill_no_create(Tail(keys), cid,
                                      Put(cls, c, Append(cls[c], p)))
             ELSE MergeFill_no_create(Tail(keys), cid, cls)

\* second loop: clusters[it.second].particles.push_back(it.first), with the
\* id stored in the map; operator[] creates a missing cluster object.
RECURSIVE MergeFill(_, _, _)
MergeFill(keys, cid, cls) ==
    IF keys = <<>> THEN cls
    ELSE LET p == Head(keys)
             c == cid[p]
             old == IF c \in DOMAIN cls THEN cls[c] ELSE <<>>
         IN  MergeFill(Tail(keys), cid, Put(cls, c, Append(old, p)))

merge_clusters(cid, ids, cls) ==
    LET keys == KeysFrom(cid, 0)
        created == MergeCreate(keys, cid, ids, cls)
    IN  IF created.hang
        THEN [cluster_id |-> cid, clusters |-> created.clusters, hang |-> TRUE]
        ELSE [cluster_id |-> cid,
              clusters |-> MergeFill(keys, cid, created.clusters),
              hang |-> FALSE]

\* ------------------------------------------------------------------ Init
Structure == [cluster_id |-> cluster_id,
              cluster_identities |-> cluster_identities,
              clusters |-> clusters]

EmptyStructure == [cluster_id |-> EmptyMap,
                   cluster_identities |-> EmptyMap,
                   clusters |-> EmptyMap]

\* value of the history variable when the structure on entry is not kept
NoHistory == [kept |-> FALSE, structure |-> EmptyStructure, finished |-> FALSE,
              same_criterion |-> FALSE]

\* the nodes have not entered the gather
\* Integrator.__init__
__init__ == [method |-> "VV",
             steepest_descent_params |-> EmptyMap,
             isotropic_npt_params |-> EmptyMap]

IntegratorAtRest ==
    /\ NPT = TRUE
    /\ integrator = __init__
    /\ integrator_pc = "using"
    /\ pickled = EmptyMap
    /\ unpickled = EmptyMap

MpiAtRest ==
    /\ n_nodes = 1
    /\ n_part = [p \in {0} |-> 0]
    /\ eager_send = TRUE
    /\ node_pc = [p \in {0} |-> "get_gather"]
    /\ contrib = [p \in {0} |-> 0]
    /\ sizes = EmptyMap
    /\ pnode = 0
    /\ g = 0
    /\ channel = {}
    /\ mpi_count = [send_get |-> [p \in {0} |-> 0],
                    recv_get |-> [p \in {0} |-> 0],
                    send_frc |-> [p \in {0} |-> 0],
                    recv_frc |-> [p \in {0} |-> 0]]
    /\ host_data_slice = EmptyMap
    /\ host_forces_slice = EmptyMap

Init ==
    /\ MpiAtRest
    /\ IntegratorAtRest
    /\ max_seen_particle \in 0..MaxId
    /\ local_particles \in SUBSET (0..max_seen_particle)
    /\ nc = {}
    /\ cluster_id = EmptyMap
    /\ cluster_identities = EmptyMap
    /\ clusters = EmptyMap
    /\ next_cluster_id = BaseClusterId
    /\ pc = "idle"
    /\ pos = 1
    /\ runs = 0
    /\ merges = 0
    /\ before = NoHistory

\* --------------------------------------------------------------- actions
Callable == pc \in {"idle", "done", "aborted"}

\* The criteria a caller passes: any criterion over the present particles
\* in the first call; in a later call the criterion of the previous call or
\* one that differs from it in exactly one pair.
Criteria ==
    IF runs = 0 THEN SUBSET PairSet(local_particles, max_seen_particle)
    ELSE {nc} \cup { (nc \ {e}) \cup ({e} \ nc) :
                        e \in PairSet(local_particles, max_seen_particle) }

\* the previous analysis ran to its end and was merged once, and the
\* caller passes its criterion again
Repeats(crit) == runs > 0 /\ crit = nc /\ pc = "done" /\ merges = 1

\* analyze_pair up to its loop: clear(), then the scan starts.  The
\* criterion is the caller's argument.  The history variable keeps the
\* structure found on entry when that structure is empty or when the call
\* repeats a finished analysis (before.finished); before.same_criterion
\* tells that the criterion is the one of the previous call.
analyze_pair ==
    /\ Callable
    /\ next_cluster_id <= MaxStartId
    /\ \E crit \in Criteria :
        /\ nc' = crit
        /\ before' = [kept |-> (Structure = EmptyStructure \/ Repeats(crit)),
                      structure |-> IF Repeats(crit) THEN Structure
                                    ELSE EmptyStructure,
                      finished |-> Repeats(crit),
                      same_criterion |-> (runs > 0 /\ crit = nc)]
    /\ clusters' = clear.clusters
    /\ cluster_id' = clear.cluster_id
    /\ cluster_identities' = clear.cluster_identities
    /\ pos' = 1
    /\ pc' = IF ScanPairs = <<>> THEN "done" ELSE "scan"
    /\ runs' = IF runs = 0 THEN 1 ELSE 2
    /\ merges' = 0
    /\ UNCHANGED <<local_particles, max_seen_particle, next_cluster_id>>
    /\ UNCHANGED <<mpi_vars, integrator_vars>>

\* one iteration of the inner loop of analyze_pair: the pair step (line
\* 376) applied to the pair the loops have reached, which is ad_pair
PairStep ==
    /\ pc = "scan"
    /\ LET pairs == ScanPairs
           p == pairs[pos]
           r == ad_pair(cluster_id, cluster_identities, next_cluster_id,
                        nc, p[1], p[2])
       IN  /\ cluster_id' = r.cluster_id
           /\ cluster_identities' = r.cluster_identities
           /\ next_cluster_id' = r.counter
           /\ pc' = IF r.hang THEN "hung"
                    ELSE IF pos = Len(pairs) THEN "done" ELSE "scan"
           /\ pos' = IF r.hang THEN pos ELSE pos + 1
    /\ UNCHANGED <<local_particles, max_seen_particle, nc, clusters, runs,
                   merges, before>>
    /\ UNCHANGED <<mpi_vars, integrator_vars>>

\* the neighbor criterion fails for the pair the scan has reached
PairThrows ==
    /\ pc = "scan"
    /\ pc' = "aborted"
    /\ UNCHANGED <<local_particles, max_seen_particle, nc, cluster_id,
                   cluster_identities, clusters, next_cluster_id, pos, runs,
                   merges, before>>
    /\ UNCHANGED <<mpi_vars, integrator_vars>>

\* merge_clusters is called before any analysis or after a finished one
Merge ==
    /\ pc \in {"idle", "done"}
    /\ merges < MaxMerges
    /\ LET r == merge_clusters(cluster_id, cluster_identities, clusters)
       IN  /\ cluster_id' = r.cluster_id
           /\ clusters' = r.clusters
           /\ pc' = IF r.hang THEN "hung" ELSE pc
           /\ merges' = IF r.hang THEN merges ELSE merges + 1
    /\ UNCHANGED <<local_particles, max_seen_particle, nc,
                   cluster_identities, next_cluster_id, pos, runs, before>>
    /\ UNCHANGED <<mpi_vars, integrator_vars>>

Next ==
    \/ analyze_pair
    \/ PairStep
    \/ PairThrows
    \/ Merge

Spec == Init /\ [][Next]_vars

\* ------------------------------------- one analysis of one more particle
\* A single analyze_pair call and its merge over the identities
\* 0..MaxId + 1: the smallest range in which a pair is scanned after the
\* alias table has got a self-alias.
InitWide ==
    /\ MpiAtRest
    /\ IntegratorAtRest
    /\ max_seen_particle \in 0..(MaxId + 1)
    /\ local_particles \in SUBSET (0..max_seen_particle)
    /\ nc = {}
    /\ cluster_id = EmptyMap
    /\ cluster_identities = EmptyMap
    /\ clusters = EmptyMap
    /\ next_cluster_id = BaseClusterId
    /\ pc = "idle"
    /\ pos = 1
    /\ runs = 0
    /\ merges = 0
    /\ before = NoHistory

analyze_pair_once == runs = 0 /\ analyze_pair

MergeOnce == merges = 0 /\ Merge

NextWide ==
    \/ analyze_pair_once
    \/ PairStep
    \/ MergeOnce

SpecWide == InitWide /\ [][NextWide]_vars

\* ------------------------------------ particle gather and force scatter
\* Every node calls mpi_get_particles_lb and afterwards mpi_send_forces_lb.
\* node_pc of a node:
\*   "get_gather"  about to call MPI_Gather in mpi_get_particles_lb
\*   "get_slave"   slave, about to run mpi_get_particles_slave_lb
\*   "get_sending" slave, inside MPI_Send
\*   "get_loop"    master, at the head of the loop over pnode
\*   "get_recv"    master, inside MPI_Recv
\*   "between"     returned from mpi_get_particles_lb
\*   "frc_gather", "frc_slave", "frc_recv" (slave inside MPI_Recv),
\*   "frc_loop", "frc_sending" (master inside MPI_Send): the same places of
\*   mpi_send_forces_lb and mpi_send_forces_slave_lb
\*   "returned"    returned from mpi_send_forces_lb
\* MPI_Gather lets a slave go on once it has handed in its value and keeps
\* the master until all values are in.  MPI_Send is a standard-mode send:
\* depending on eager_send it returns at once or when the message has been
\* received.
Nodes == 0..(n_nodes - 1)

Slaves == 1..(n_nodes - 1)

Slice(start, len) == [start |-> start, len |-> len]

Message(src, dst, start, len) ==
    [src |-> src, dst |-> dst, start |-> start, len |-> len]

\* the slave functions without their if (n_part > 0)
slave_always(n) == TRUE

\* if (n_part > 0) of the two slave functions
slave_has_particles(n) == n > 0

\* if (sizes[pnode] > 0) of the two master loops
master_expects(n) == n > 0

\* g += sizes[pnode] and the sum of g += npart over the cells of node 0 in
\* mpi_get_particles_lb
get_advance(offset, n) == offset + n

\* mpi_send_forces_lb without an advance of g
frc_no_advance(offset, n) == offset

\* g += sizes[pnode] and the sum of g += npart over the cells of node 0 in
\* mpi_send_forces_lb
frc_advance(offset, n) == offset + n

Counted(field, p) ==
    [mpi_count EXCEPT ![field] = Put(mpi_count[field], p, mpi_count[field][p] + 1)]

\* values of cells_get_n_particles(): none, one, many
PartCounts == {0, 1, MaxPart}

InitMpi ==
    /\ IntegratorAtRest
    /\ n_nodes \in 1..MaxNodes
    /\ n_part \in [Nodes -> PartCounts]
    /\ eager_send \in BOOLEAN
    /\ node_pc = [p \in Nodes |-> "get_gather"]
    /\ contrib = [p \in Nodes |-> 0]
    /\ sizes = EmptyMap
    /\ pnode = 0
    /\ g = 0
    /\ channel = {}
    /\ mpi_count = [send_get |-> [p \in Nodes |-> 0],
                    recv_get |-> [p \in Nodes |-> 0],
                    send_frc |-> [p \in Nodes |-> 0],
                    recv_frc |-> [p \in Nodes |-> 0]]
    /\ host_data_slice = EmptyMap
    /\ host_forces_slice = EmptyMap
    /\ max_seen_particle = 0
    /\ local_particles = {}
    /\ nc = {}
    /\ cluster_id = EmptyMap
    /\ cluster_identities = EmptyMap
    /\ clusters = EmptyMap
    /\ next_cluster_id = BaseClusterId
    /\ pc = "idle"
    /\ pos = 1
    /\ runs = 0
    /\ merges = 0
    /\ before = NoHistory

Goto(p, place) == node_pc' = Put(node_pc, p, place)

\* MPI_Gather on a slave, in either function
SlaveGather(p) ==
    /\ p \in Slaves
    /\ node_pc[p] \in {"get_gather", "frc_gather"}
    /\ contrib' = Put(contrib, p, contrib[p] + 1)
    /\ Goto(p, IF node_pc[p] = "get_gather" THEN "get_slave" ELSE "frc_slave")
    /\ UNCHANGED <<n_nodes, n_part, eager_send, sizes, pnode, g, channel,
                   mpi_count, host_data_slice, host_forces_slice>>
    /\ UNCHANGED <<cluster_vars, integrator_vars>>

\* MPI_Gather on the master, in either function: returns with the values of
\* all nodes; then g = 0 and the loop starts
MasterGather ==
    /\ node_pc[0] \in {"get_gather", "frc_gather"}
    /\ \A p \in Slaves : contrib[p] > contrib[0]
    /\ contrib' = Put(contrib, 0, contrib[0] + 1)
    /\ sizes' = [p \in Nodes |-> n_part[p]]
    /\ g' = 0
    /\ pnode' = 0
    /\ Goto(0, IF node_pc[0] = "get_gather" THEN "get_loop" ELSE "frc_loop")
    /\ UNCHANGED <<n_nodes, n_part, eager_send, channel, mpi_count,
                   host_data_slice, host_forces_slice>>
    /\ UNCHANGED <<cluster_vars, integrator_vars>>

\* mpi_get_particles_slave_lb up to and including the call of MPI_Send
SlaveGetParticles(p) ==
    /\ p \in Slaves
    /\ node_pc[p] = "get_slave"
    /\ IF slave_has_particles(n_part[p])
       THEN /\ channel' = channel \cup {Message(p, 0, 0, n_part[p])}
            /\ mpi_count' = Counted("send_get", p)
            /\ Goto(p, IF eager_send THEN "between" ELSE "get_sending")
       ELSE /\ Goto(p, "between")
            /\ UNCHANGED <<channel, mpi_count>>
    /\ UNCHANGED <<n_nodes, n_part, eager_send, contrib, sizes, pnode, g,
                   host_data_slice, host_forces_slice>>
    /\ UNCHANGED <<cluster_vars, integrator_vars>>

\* MPI_Send of a slave returns: its message has been received
SlaveSendReturns(p) ==
    /\ p \in Slaves
    /\ node_pc[p] = "get_sending"
    /\ \A m \in channel : m.src # p
    /\ Goto(p, "between")
    /\ UNCHANGED <<n_nodes, n_part, eager_send, contrib, sizes, pnode, g,
                   channel, mpi_count, host_data_slice, host_forces_slice>>
    /\ UNCHANGED <<cluster_vars, integrator_vars>>

\* one pass through the head of the master's loop in mpi_get_particles_lb:
\* loop end, a node without particles, the master's own particles, or the
\* call of MPI_Recv for a slave
MasterGetLoop ==
    /\ node_pc[0] = "get_loop"
    /\ IF pnode >= n_nodes
       THEN /\ Goto(0, "between")
            /\ UNCHANGED <<pnode, g, mpi_count, host_data_slice>>
       ELSE IF ~master_expects(sizes[pnode])
       THEN /\ pnode' = pnode + 1
            /\ UNCHANGED <<node_pc, g, mpi_count, host_data_slice>>
       ELSE IF pnode = 0
       THEN /\ host_data_slice' = Put(host_data_slice, 0, Slice(g, n_part[0]))
            /\ g' = get_advance(g, n_part[0])
            /\ pnode' = pnode + 1
            /\ UNCHANGED <<node_pc, mpi_count>>
       ELSE /\ mpi_count' = Counted("recv_get", pnode)
            /\ Goto(0, "get_recv")
            /\ UNCHANGED <<pnode, g, host_data_slice>>
    /\ UNCHANGED <<n_nodes, n_part, eager_send, contrib, sizes, channel,
                   host_forces_slice>>
    /\ UNCHANGED <<cluster_vars, integrator_vars>>

\* MPI_Recv of the master returns with the message of pnode, stored at
\* &host_data[g]
MasterRecvReturns ==
    /\ node_pc[0] = "get_recv"
    /\ \E m \in channel :
        /\ m.src = pnode /\ m.dst = 0
        /\ channel' = channel \ {m}
        /\ host_data_slice' = Put(host_data_slice, pnode, Slice(g, m.len))
    /\ g' = get_advance(g, sizes[pnode])
    /\ pnode' = pnode + 1
    /\ Goto(0, "get_loop")
    /\ UNCHANGED <<n_nodes, n_part, eager_send, contrib, sizes, mpi_count,
                   host_forces_slice>>
    /\ UNCHANGED <<cluster_vars, integrator_vars>>

\* a node that has returned from mpi_get_particles_lb calls
\* mpi_send_forces_lb
CallSendForces(p) ==
    /\ p \in Nodes
    /\ node_pc[p] = "between"
    /\ Goto(p, "frc_gather")
    /\ UNCHANGED <<n_nodes, n_part, eager_send, contrib, sizes, pnode, g,
                   channel, mpi_count, host_data_slice, host_forces_slice>>
    /\ UNCHANGED <<cluster_vars, integrator_vars>>

\* one pass through the head of the master's loop in mpi_send_forces_lb:
\* loop end, a node without particles, the master's own forces, or the
\* call of MPI_Send for a slave
MasterForcesLoop ==
    /\ node_pc[0] = "frc_loop"
    /\ IF pnode >= n_nodes
       THEN /\ Goto(0, "returned")
            /\ UNCHANGED <<pnode, g, mpi_count, channel, host_forces_slice>>
       ELSE IF ~master_expects(sizes[pnode])
       THEN /\ pnode' = pnode + 1
            /\ UNCHANGED <<node_pc, g, mpi_count, channel, host_forces_slice>>
       ELSE IF pnode = 0
       THEN /\ host_forces_slice' =
                   Put(host_forces_slice, 0, Slice(g, n_part[0]))
            /\ g' = frc_advance(g, n_part[0])
            /\ pnode' = pnode + 1
            /\ UNCHANGED <<node_pc, mpi_count, channel>>
       ELSE /\ channel' = channel \cup {Message(0, pnode, g, sizes[pnode])}
            /\ mpi_count' = Counted("send_frc", pnode)
            /\ IF eager_send
               THEN /\ g' = frc_advance(g, sizes[pnode])
                    /\ pnode' = pnode + 1
                    /\ UNCHANGED node_pc
               ELSE /\ Goto(0, "frc_sending")
                    /\ UNCHANGED <<pnode, g>>
            /\ UNCHANGED host_forces_slice
    /\ UNCHANGED <<n_nodes, n_part, eager_send, contrib, sizes,
                   host_data_slice>>
    /\ UNCHANGED <<cluster_vars, integrator_vars>>

\* MPI_Send of the master returns: its message has been received
MasterSendReturns ==
    /\ node_pc[0] = "frc_sending"
    /\ \A m \in channel : m.src # 0
    /\ g' = frc_advance(g, sizes[pnode])
    /\ pnode' = pnode + 1
    /\ Goto(0, "frc_loop")
    /\ UNCHANGED <<n_nodes, n_part, eager_send, contrib, sizes, channel,
                   mpi_count, host_data_slice, host_forces_slice>>
    /\ UNCHANGED <<cluster_vars, integrator_vars>>

\* mpi_send_forces_slave_lb up to and including the call of MPI_Recv
SlaveSendForces(p) ==
    /\ p \in Slaves
    /\ node_pc[p] = "frc_slave"
    /\ IF slave_has_particles(n_part[p])
       THEN /\ mpi_count' = Counted("recv_frc", p)
            /\ Goto(p, "frc_recv")
       ELSE /\ Goto(p, "returned")
            /\ UNCHANGED mpi_count
    /\ UNCHANGED <<n_nodes, n_part, eager_send, contrib, sizes, pnode, g,
                   channel, host_data_slice, host_forces_slice>>
    /\ UNCHANGED <<cluster_vars, integrator_vars>>

\* MPI_Recv of a slave returns with the master's message; the slave adds
\* the forces to its particles and returns
SlaveRecvReturns(p) ==
    /\ p \in Slaves
    /\ node_pc[p] = "frc_recv"
    /\ \E m \in channel :
        /\ m.src = 0 /\ m.dst = p
        /\ channel' = channel \ {m}
        /\ host_forces_slice' = Put(host_forces_slice, p, Slice(m.start, m.len))
    /\ Goto(p, "returned")
    /\ UNCHANGED <<n_nodes, n_part, eager_send, contrib, sizes, pnode, g,
                   mpi_count, host_data_slice>>
    /\ UNCHANGED <<cluster_vars, integrator_vars>>

SlaveStep(p) ==
    \/ SlaveGather(p)
    \/ SlaveGetParticles(p)
    \/ SlaveSendReturns(p)
    \/ CallSendForces(p)
    \/ SlaveSendForces(p)
    \/ SlaveRecvReturns(p)

MasterStep ==
    \/ MasterGather
    \/ MasterGetLoop
    \/ MasterRecvReturns
    \/ CallSendForces(0)
    \/ MasterForcesLoop
    \/ MasterSendReturns

NextMpi ==
    \/ MasterStep
    \/ \E p \in 1..(MaxNodes - 1) : SlaveStep(p)

\* every node is a process of its own that keeps running
SpecMpi ==
    /\ InitMpi
    /\ [][NextMpi]_vars
    /\ WF_vars(MasterStep)
    /\ \A p \in 1..(MaxNodes - 1) : WF_vars(SlaveStep(p))

\* ------------------------------------------------------------ Integrator
\* A Python value is a record of its type and its value.  The attribute
\* _method is the field method, the two dictionaries are functions from
\* their keys.  A method of the class is an operator from self (and its
\* arguments) to the new self and whether it raised.
ParamValues == 1..MaxParam

PyFloat(v) == [type |-> "float", val |-> v]

PyInt(v) == [type |-> "int", val |-> v]

PyBool(b) == [type |-> "bool", val |-> b]

\* int(b) of a bool
int(b) == IF b THEN 1 ELSE 0

\* direction = list(map(int, direction)) for an ndarray, else unchanged
direction_as_stored(direction) ==
    IF direction.type = "ndarray"
    THEN [type |-> "list",
          val |-> [i \in DOMAIN direction.val |-> int(direction.val[i])]]
    ELSE direction

\* the two checks "must be a float" of set_isotropic_npt
is_float(x) == x.type = "float"

Returned(self) == [self |-> self, raised |-> FALSE]

Raised(self) == [self |-> self, raised |-> TRUE]

\* dict.update
update(d, kwargs) == kwargs @@ d

req == {"f_max", "gamma", "max_displacement"}

set_steepest_descent(self, kwargs) ==
    IF \E key \in DOMAIN kwargs : key \notin req
    THEN Raised(self)
    ELSE Returned([self EXCEPT
                      !.steepest_descent_params = update(@, kwargs),
                      !.method = "STEEPEST_DESCENT"])

set_vv(self) == Returned([self EXCEPT !.method = "VV"])

set_nvt(self) == Returned([self EXCEPT !.method = "NVT"])

set_sd(self) == Returned([self EXCEPT !.method = "SD"])

set_isotropic_npt(self, compiled, ext_pressure, piston, direction, cubic_box) ==
    IF ~compiled
    THEN Raised(self)
    ELSE LET stored ==
                 [self EXCEPT
                     !.method = "NPT",
                     !.isotropic_npt_params =
                         update(@, [key \in {"ext_pressure", "piston",
                                             "direction", "cubic_box"} |->
                             CASE key = "ext_pressure" -> ext_pressure
                               [] key = "piston" -> piston
                               [] key = "direction" ->
                                      direction_as_stored(direction)
                               [] OTHER -> cubic_box])]
         IN  IF is_float(ext_pressure) /\ is_float(piston)
             THEN Returned(stored)
             ELSE Raised(stored)

__getstate__(self) ==
    [key \in {"_method", "_steepest_descent_params",
              "_isotropic_npt_params"} |->
        CASE key = "_method" -> self.method
          [] key = "_steepest_descent_params" -> self.steepest_descent_params
          [] OTHER -> self.isotropic_npt_params]

get_state(self) == __getstate__(self)

\* __setstate__ on a new Integrator
__setstate__(state, compiled) ==
    LET self == [__init__ EXCEPT !.method = state["_method"]]
        npt == state["_isotropic_npt_params"]
    IN  CASE self.method = "STEEPEST_DESCENT" ->
                 set_steepest_descent(self, state["_steepest_descent_params"])
          [] self.method = "NVT" -> set_nvt(self)
          [] self.method = "SD" -> set_sd(self)
          [] self.method = "NPT" ->
                 set_isotropic_npt(self, compiled, npt["ext_pressure"],
                                   npt["piston"], npt["direction"],
                                   npt["cubic_box"])
          [] OTHER -> Returned(self)

\* keyword arguments of set_steepest_descent: any of the three parameters,
\* or a key that is none of them
Kwargs ==
    UNION {[keys -> ParamValues] : keys \in SUBSET req}
        \cup {[key \in {"steps"} |-> 1]}

Pressures == {PyFloat(v) : v \in ParamValues} \cup {PyInt(1)}

Pistons == {PyFloat(v) : v \in ParamValues}

Directions == {[type |-> "tuple", val |-> <<TRUE, TRUE, TRUE>>],
               [type |-> "ndarray", val |-> <<TRUE, FALSE, TRUE>>]}

InitIntegrator ==
    /\ NPT \in BOOLEAN
    /\ integrator = __init__
    /\ integrator_pc = "using"
    /\ pickled = EmptyMap
    /\ unpickled = EmptyMap
    /\ MpiAtRest
    /\ max_seen_particle = 0
    /\ local_particles = {}
    /\ nc = {}
    /\ cluster_id = EmptyMap
    /\ cluster_identities = EmptyMap
    /\ clusters = EmptyMap
    /\ next_cluster_id = BaseClusterId
    /\ pc = "idle"
    /\ pos = 1
    /\ runs = 0
    /\ merges = 0
    /\ before = NoHistory

Call_set_vv ==
    /\ integrator_pc = "using"
    /\ integrator' = set_vv(integrator).self
    /\ UNCHANGED <<NPT, integrator_pc, pickled, unpickled>>
    /\ UNCHANGED <<cluster_vars, mpi_vars>>

Call_set_nvt ==
    /\ integrator_pc = "using"
    /\ integrator' = set_nvt(integrator).self
    /\ UNCHANGED <<NPT, integrator_pc, pickled, unpickled>>
    /\ UNCHANGED <<cluster_vars, mpi_vars>>

Call_set_sd ==
    /\ integrator_pc = "using"
    /\ integrator' = set_sd(integrator).self
    /\ UNCHANGED <<NPT, integrator_pc, pickled, unpickled>>
    /\ UNCHANGED <<cluster_vars, mpi_vars>>

Call_set_steepest_descent ==
    /\ integrator_pc = "using"
    /\ \E kwargs \in Kwargs :
        integrator' = set_steepest_descent(integrator, kwargs).self
    /\ UNCHANGED <<NPT, integrator_pc, pickled, unpickled>>
    /\ UNCHANGED <<cluster_vars, mpi_vars>>

Call_set_isotropic_npt ==
    /\ integrator_pc = "using"
    /\ \E ext_pressure \in Pressures, piston \in Pistons,
          direction \in Directions, cubic_box \in BOOLEAN :
        integrator' = set_isotropic_npt(integrator, NPT, ext_pressure, piston,
                                        direction, PyBool(cubic_box)).self
    /\ UNCHANGED <<NPT, integrator_pc, pickled, unpickled>>
    /\ UNCHANGED <<cluster_vars, mpi_vars>>

\* pickle.dumps: the state of the integrator is taken
Pickle ==
    /\ integrator_pc = "using"
    /\ pickled' = get_state(integrator)
    /\ integrator_pc' = "pickled"
    /\ UNCHANGED <<NPT, integrator, unpickled>>
    /\ UNCHANGED <<cluster_vars, mpi_vars>>

\* pickle.loads: __setstate__ of a new Integrator with the state taken
Unpickle ==
    /\ integrator_pc = "pickled"
    /\ unpickled' = __setstate__(pickled, NPT)
    /\ integrator_pc' = "unpickled"
    /\ UNCHANGED <<NPT, integrator, pickled>>
    /\ UNCHANGED <<cluster_vars, mpi_vars>>

NextIntegrator ==
    \/ Call_set_vv
    \/ Call_set_nvt
    \/ Call_set_sd
    \/ Call_set_steepest_descent
    \/ Call_set_isotropic_npt
    \/ Pickle
    \/ Unpickle

SpecIntegrator == InitIntegrator /\ [][NextIntegrator]_vars

\* ------------------------------------------------- notions of the claims
Elems(seq) == { seq[n] : n \in 1..Len(seq) }

\* the analysis ran to its end and merge_clusters ran once after it
AnalysisMerged == pc = "done" /\ runs > 0 /\ merges = 1

\* particles reachable from the set S over pairs of the criterion
RECURSIVE Reach(_, _)
Reach(S, crit) ==
    LET T == S \cup { q \in local_particles :
                        \E p \in S : p # q /\ are_neighbors(crit, p, q) }
    IN  IF T = S THEN S ELSE Reach(T, crit)

Connected(a, b) == b \in Reach({a}, nc)

\* present particles with at least one neighbor among the present particles
WithNeighbor ==
    { p \in local_particles :
        \E q \in local_particles : p # q /\ are_neighbors(nc, p, q) }

\* every id that occurs in the assignment map or in the alias table
AllocatedIds ==
    Range(cluster_id) \cup DOMAIN cluster_identities
                      \cup Range(cluster_identities)

MemberLists(cls) == { cls[k] : k \in DOMAIN cls }

\* analyze_pair and merge_clusters on a freshly constructed structure
RECURSIVE ScanAll(_, _, _, _, _)
ScanAll(pairs, cid, ids, counter, crit) ==
    IF pairs = <<>> THEN AdResult(cid, ids, counter, FALSE)
    ELSE LET r == ad_pair(cid, ids, counter, crit,
                          Head(pairs)[1], Head(pairs)[2])
         IN  IF r.hang THEN r
             ELSE ScanAll(Tail(pairs), r.cluster_id, r.cluster_identities,
                          r.counter, crit)

FreshStructure(crit) ==
    LET s == ScanAll(ScanPairs, EmptyMap, EmptyMap, BaseClusterId, crit)
        m == merge_clusters(s.cluster_id, s.cluster_identities, EmptyMap)
    IN  [cluster_id |-> m.cluster_id,
         cluster_identities |-> s.cluster_identities,
         clusters |-> m.clusters]

\* ---------------------------------------------------------------- claims

\* C1: after analyze_pair and merge_clusters, two distinct present
\* particles both have an assignment entry with the same cluster id if and
\* only if a chain of neighbor pairs connects them.
C1_SameIdIffConnected ==
    AnalysisMerged =>
        \A a \in local_particles : \A b \in local_particles \ {a} :
            (/\ a \in DOMAIN cluster_id
             /\ b \in DOMAIN cluster_id
             /\ cluster_id[a] = cluster_id[b]) <=> Connected(a, b)

\* C2: after analyze_pair and merge_clusters the member lists are pairwise
\* disjoint, no particle occurs twice in a list, and the union of the lists
\* is the set of present particles that have a neighbor.
C2_MemberListsPartition ==
    AnalysisMerged =>
        /\ \A k1 \in DOMAIN clusters : \A k2 \in DOMAIN clusters \ {k1} :
               Elems(clusters[k1]) \cap Elems(clusters[k2]) = {}
        /\ \A k \in DOMAIN clusters :
               Cardinality(Elems(clusters[k])) = Len(clusters[k])
        /\ UNION { Elems(clusters[k]) : k \in DOMAIN clusters } = WithNeighbor

\* a merged analysis in which two clusters were aliased together, so that
\* two member lists exist
C2_Witness ==
    /\ AnalysisMerged
    /\ cluster_identities # EmptyMap
    /\ Cardinality(DOMAIN clusters) >= 2

\* C3: in every state the alias table has no cycle and no self-alias:
\* find_id_for returns from every id after at most as many steps as there
\* are allocated ids.
C3_AliasTableAcyclic ==
    \A x \in AllocatedIds :
        LET n == find_id_steps(cluster_identities, x)
        IN  n # Diverges /\ n <= Cardinality(AllocatedIds)

\* C4: every alias-table entry k -> v points to a smaller id, v < k.
C4_AliasPointsToSmaller ==
    \A k \in DOMAIN cluster_identities : cluster_identities[k] < k

\* C5: a second analysis with a different criterion, merged, leaves the
\* structure equal to the one the same analysis builds on a freshly
\* constructed structure.
C5_SecondAnalysisEqualsFresh ==
    (AnalysisMerged /\ runs = 2 /\ ~before.same_criterion) =>
        Structure = FreshStructure(nc)

\* C6: at the start of every analyze_pair call the cluster-id counter is
\* back at its base value.
C6_CounterResetAtStart ==
    (pc = "scan" /\ pos = 1) => next_cluster_id = BaseClusterId

\* C7: when the criterion fails in the middle of the scan, the structure
\* is empty or is the structure found on entry of analyze_pair.
C7_NoPartialResultAfterFailure ==
    (pc = "aborted" /\ before.kept) =>
        (Structure = EmptyStructure \/ Structure = before.structure)

\* C8: after merge_clusters every assignment entry holds an id without an
\* alias, and the keys of the cluster map are exactly the ids that occur in
\* the assignment map.
C8_AssignmentsCanonicalAfterMerge ==
    AnalysisMerged =>
        /\ \A p \in DOMAIN cluster_id :
               cluster_id[p] \notin DOMAIN cluster_identities
        /\ DOMAIN clusters = Range(cluster_id)

\* C9: a repeated analysis with the same particles and the same criterion,
\* merged, yields the member lists of the previous one (as many clusters,
\* the same lists; the cluster ids may differ).
C9_SamePartitionOnRepeat ==
    (AnalysisMerged /\ before.finished) =>
        /\ MemberLists(clusters) = MemberLists(before.structure.clusters)
        /\ Cardinality(DOMAIN clusters)
               = Cardinality(DOMAIN before.structure.clusters)

\* a repeated and merged analysis with two clusters under new ids
C9_Witness ==
    /\ AnalysisMerged
    /\ before.finished
    /\ Cardinality(DOMAIN clusters) >= 2
    /\ DOMAIN clusters # DOMAIN before.structure.clusters

\* C10: in every state find_id_for returns from every allocated id, and
\* applied to its own result it returns that result again.
C10_FindIdIdempotent ==
    \A x \in AllocatedIds :
        LET r == find_id_for(cluster_identities, x)
        IN  /\ r # Diverges
            /\ find_id_for(cluster_identities, r) = r

\* ------------------------------------------ notions of the scan's claims
\* the pair the scan has reached
CurrentPair == ScanPairs[pos]

\* the scan is about to process a pair for which the criterion is true
AtNeighborPair ==
    /\ pc = "scan"
    /\ are_neighbors(nc, CurrentPair[1], CurrentPair[2])

Assigned(p) == p \in DOMAIN cluster_id

\* the already processed pairs for which the criterion was true
ProcessedNeighbors ==
    LET pairs == ScanPairs
    IN  { pairs[n] : n \in 1..(pos - 1) } \cap nc

InPairs(P) == { p[1] : p \in P } \cup { p[2] : p \in P }

\* the maps of the structure that ad_pair writes
ScanMaps == <<cluster_id, cluster_identities>>

\* C11: ad_pair on a neighbor pair of two assigned particles whose resolved
\* ids are equal changes neither the assignment map nor the alias table.
C11_SameCanonicalIsNoOp ==
    [][ (/\ AtNeighborPair
         /\ Assigned(CurrentPair[1]) /\ Assigned(CurrentPair[2])
         /\ find_id_for(cluster_identities, cluster_id[CurrentPair[1]])
              # Diverges
         /\ find_id_for(cluster_identities, cluster_id[CurrentPair[1]])
              = find_id_for(cluster_identities, cluster_id[CurrentPair[2]]))
        => (cluster_id' = cluster_id
            /\ cluster_identities' = cluster_identities) ]_vars

\* C12: ad_pair on a neighbor pair with exactly one assigned particle gives
\* the other particle the resolved id of the assigned one and changes
\* nothing else, whichever of the two is the assigned one.
C12_OneAssignedGetsCanonical ==
    [][ (/\ AtNeighborPair
         /\ pc' # "aborted"
         /\ Assigned(CurrentPair[1]) # Assigned(CurrentPair[2]))
        => LET a == IF Assigned(CurrentPair[1]) THEN CurrentPair[1]
                    ELSE CurrentPair[2]
               u == IF Assigned(CurrentPair[1]) THEN CurrentPair[2]
                    ELSE CurrentPair[1]
               c == find_id_for(cluster_identities, cluster_id[a])
           IN  /\ c # Diverges
               /\ cluster_id' = Put(cluster_id, u, c)
               /\ cluster_identities' = cluster_identities ]_vars

C14_EntryIffSeenAsNeighbor ==
    runs > 0 => DOMAIN cluster_id = InPairs(ProcessedNeighbors)

\* in the middle of a scan: one particle assigned, another one with a
\* neighbor not reached yet, a third one without any neighbor
C14_Witness ==
    /\ pc = "scan"
    /\ cluster_id # EmptyMap
    /\ WithNeighbor \ DOMAIN cluster_id # {}
    /\ local_particles \ WithNeighbor # {}

\* the scan order: strictly ascending in i, then j, over exactly the pairs
\* i < j of present identities in 0..max_seen_particle
ScanOrderIsAscending ==
    /\ \A n \in 1..(Len(ScanPairs) - 1) :
           \/ ScanPairs[n][1] < ScanPairs[n + 1][1]
           \/ /\ ScanPairs[n][1] = ScanPairs[n + 1][1]
              /\ ScanPairs[n][2] < ScanPairs[n + 1][2]
    /\ { ScanPairs[n] : n \in 1..Len(ScanPairs) }
           = { q \in (0..max_seen_particle) \X (0..max_seen_particle) :
                 q[1] < q[2] /\ q[1] \in local_particles
                             /\ q[2] \in local_particles }

\* C15: an analyze_pair call whose criterion does not fail applies the pair
\* step once to every pair i < j of present identities, in ascending order:
\* when the call is over, the scan has passed the last pair.
C15_EveryPairStepped ==
    (runs > 0 /\ pc \in {"done", "hung"}) =>
        (pos = Len(ScanPairs) + 1 /\ ScanOrderIsAscending)

\* C16: at every point of the scan, before merge_clusters, two assigned
\* particles resolve to the same id exactly when a chain of already
\* processed neighbor pairs connects them.
C16_ResolvedIdsFollowConnectivity ==
    (runs > 0 /\ merges = 0) =>
        \A a \in DOMAIN cluster_id : \A b \in DOMAIN cluster_id \ {a} :
            (/\ find_id_for(cluster_identities, cluster_id[a]) # Diverges
             /\ find_id_for(cluster_identities, cluster_id[a])
                  = find_id_for(cluster_identities, cluster_id[b]))
            <=> b \in Reach({a}, ProcessedNeighbors)

\* C17: a second merge_clusters call without an analysis in between leaves
\* the assignment map and every member list unchanged.
C17_MergeIdempotent ==
    [][ (pc = "done" /\ merges >= 1 /\ merges' = merges + 1)
        => (cluster_id' = cluster_id /\ clusters' = clusters) ]_vars

\* C18: after analyze_pair and merge_clusters every cluster of the cluster
\* map has at least two members.
C18_NoSmallCluster ==
    AnalysisMerged => \A k \in DOMAIN clusters : Len(clusters[k]) >= 2

\* a merged analysis with a cluster and with a particle that has no
\* neighbor and is in no cluster
C18_Witness ==
    /\ AnalysisMerged
    /\ DOMAIN clusters # {}
    /\ local_particles \ WithNeighbor # {}
    /\ \E k \in DOMAIN clusters : Len(clusters[k]) = 2

\* ------------------------------------- notions of the gather and scatter
AllReturned == \A p \in Nodes : node_pc[p] = "returned"

GetPlaces == {"get_gather", "get_slave", "get_sending", "get_loop", "get_recv"}

SlaveSentParticles(p) == node_pc[p] \notin {"get_gather", "get_slave"}

MasterFinishedGet == node_pc[0] \notin GetPlaces

SlaveAskedForces(p) == node_pc[p] \in {"frc_recv", "returned"}

MasterFinishedForces == node_pc[0] = "returned"

Once(condition) == IF condition THEN 1 ELSE 0

RECURSIVE CountBelow(_)
CountBelow(p) == IF p = 0 THEN 0 ELSE CountBelow(p - 1) + n_part[p - 1]

Indices(slice) == slice.start..(slice.start + slice.len - 1)

WithParticles == {p \in Nodes : n_part[p] > 0}

SendsMatchReceives ==
    /\ \A p \in Slaves :
        /\ mpi_count.send_get[p] <= 1 /\ mpi_count.recv_get[p] <= 1
        /\ mpi_count.send_frc[p] <= 1 /\ mpi_count.recv_frc[p] <= 1
        /\ SlaveSentParticles(p) =>
               mpi_count.send_get[p] = Once(n_part[p] > 0)
        /\ MasterFinishedGet =>
               mpi_count.recv_get[p] = Once(sizes[p] > 0)
        /\ SlaveAskedForces(p) =>
               mpi_count.recv_frc[p] = Once(n_part[p] > 0)
        /\ MasterFinishedForces =>
               mpi_count.send_frc[p] = Once(sizes[p] > 0)
    /\ MasterFinishedGet => \A m \in channel : m.dst # 0
    /\ AllReturned => channel = {}

\* C19: in the particle gather the master posts exactly one receive from a
\* node p > 0 iff p's gathered count is greater than 0, and p sends exactly
\* one message iff its count is greater than 0; the same holds in the
\* opposite direction for the forces; every send is matched by a receive
\* and all nodes eventually return.
C19_SendsMatchedAllReturn == []SendsMatchReceives /\ <>AllReturned

C19_Witness ==
    /\ AllReturned
    /\ ~eager_send
    /\ \E p \in Slaves : n_part[p] > 0 /\ mpi_count.recv_get[p] = 1
                         /\ mpi_count.send_frc[p] = 1
    /\ \E q \in Slaves : n_part[q] = 0 /\ mpi_count.recv_get[q] = 0

\* C20: the slice of the force array delivered to node p starts at the sum
\* of the particle counts of all lower-ranked nodes and has the same start
\* and length as the slice of the particle array that holds p's particles;
\* the slices of different nodes do not overlap and together cover the
\* indices 0 up to the total particle count.
C20_ForceSliceIsParticleSlice ==
    /\ \A p \in DOMAIN host_forces_slice :
        /\ p \in DOMAIN host_data_slice
        /\ host_forces_slice[p] = host_data_slice[p]
        /\ host_forces_slice[p] = Slice(CountBelow(p), n_part[p])
    /\ AllReturned =>
        /\ DOMAIN host_forces_slice = WithParticles
        /\ \A p, q \in WithParticles :
               p # q => Indices(host_forces_slice[p])
                            \cap Indices(host_forces_slice[q]) = {}
        /\ UNION {Indices(host_forces_slice[p]) : p \in WithParticles}
               = 0..(CountBelow(n_nodes) - 1)

C20_Witness ==
    /\ AllReturned
    /\ \E p, q \in Slaves :
        /\ p < q
        /\ n_part[0] > 0 /\ n_part[p] > 0 /\ n_part[q] > 0
        /\ host_forces_slice[q].start = n_part[0] + n_part[p]
        /\ host_forces_slice[q].start > host_forces_slice[p].start

\* C21: the integrator state survives a pickle round trip: a new Integrator
\* on which __setstate__(s) was called returns from get_state a state equal
\* to s (same _method, same steepest-descent parameters, same NPT
\* parameters), for every state s that get_state can return.
C21_StateSurvivesRoundTrip ==
    integrator_pc = "unpickled" => get_state(unpickled.self) = pickled

====
